---------------------------- MODULE Spec2Model ----------------------------
(***************************************************************************)
(* A model of the to-do list manager of src/src/main.rs: the App state,    *)
(* the modal key handler App::process_input_event, the shared line editor  *)
(* App::edit_buffer, the Normal-mode bindings and loop of run_app, and the  *)
(* whole-document load/save of the storage functions.                      *)
(*                                                                         *)
(* Strings are sequences of bytes (their UTF-8 encoding), indices are      *)
(* 0-based as in the source, and a TLA+ sequence s holds the element of    *)
(* index i at s[i + 1].                                                     *)
(***************************************************************************)
EXTENDS Integers, Sequences, FiniteSets, TLC

\* ------------------------------------------------------------------ bounds

\* The most pages the modelled user lets the Document grow to.
MaxPages == 2
\* The most todos the modelled user keeps in the whole Document.
MaxTodos == 2
\* The longest text, in bytes, the modelled user types into one buffer.
MaxLen == 1
\* The most save calls the file system fails in one session.
MaxSaveFailures == 1
\* The longest buffer, in bytes, of the editing sessions.
MaxEditLen == 3

\* ------------------------------------------------------------ text, bytes

\* The UTF-8 encoding of a character a key event carries.
Utf8(c) ==
  CASE c = " " -> <<32>>
    [] c = "1" -> <<49>>
    [] c = "2" -> <<50>>
    [] c = "3" -> <<51>>
    [] c = "4" -> <<52>>
    [] c = "5" -> <<53>>
    [] c = "6" -> <<54>>
    [] c = "7" -> <<55>>
    [] c = "8" -> <<56>>
    [] c = "9" -> <<57>>
    [] c = "a" -> <<97>>
    [] c = "b" -> <<98>>
    [] c = "d" -> <<100>>
    [] c = "h" -> <<104>>
    [] c = "j" -> <<106>>
    [] c = "k" -> <<107>>
    [] c = "l" -> <<108>>
    [] c = "n" -> <<110>>
    [] c = "q" -> <<113>>
    [] c = "r" -> <<114>>
    [] c = "e_acute" -> <<195, 169>>

\* "main".to_string()
MainName == <<109, 97, 105, 110>>

\* u8::is_ascii_whitespace: space, tab, line feed, form feed, carriage return.
is_ascii_whitespace(b) == b \in {32, 9, 10, 12, 13}

\* str::is_char_boundary: offset i of buf starts a character or is the end.
is_char_boundary(buf, i) ==
  \/ i = 0
  \/ i = Len(buf)
  \/ i < Len(buf) /\ ~(buf[i + 1] >= 128 /\ buf[i + 1] < 192)

\* The number of bytes of the character whose first byte is b.
len_utf8(b) ==
  IF b < 128 THEN 1 ELSE IF b < 224 THEN 2 ELSE IF b < 240 THEN 3 ELSE 4

\* --------------------------------------------------------------- sequences

\* RemoveAt taking the last element, whatever the index.
RemoveAt_Last(s, i) == SubSeq(s, 1, Len(s) - 1)

\* Vec::remove(i): the sequence without its element of index i.
RemoveAt(s, i) == SubSeq(s, 1, i) \o SubSeq(s, i + 2, Len(s))

\* SwapAt writing one of the two elements only.
SwapAt_Overwrite(s, i, j) == [s EXCEPT ![i + 1] = s[j + 1]]

\* slice::swap(i, j)
SwapAt(s, i, j) == [s EXCEPT ![i + 1] = s[j + 1], ![j + 1] = s[i + 1]]

\* ------------------------------------------------------------- data model

Todo(name, completed) == [name |-> name, completed |-> completed]

Page(name, todos) == [name |-> name, todos |-> todos]

\* ------------------------------------------------------------------- keys

\* A crossterm KeyEvent of kind Press: its code, the character of a Char
\* code, and its modifiers.
Key(code, ch, modifiers) == [code |-> code, ch |-> ch, modifiers |-> modifiers]

CharKey(c) == Key("Char", c, {})

\* The value of key while no key event is being handled.
NoKey == Key("None", "", {})

\* The characters the modelled user puts into names.
NameChars == {"a"}

\* The characters Normal mode binds to a command; the digits offered are
\* those up to one past the largest page count.
DigitChars == {"1", "2", "3", "4", "5", "6", "7", "8", "9"}

\* char::to_digit(10) of a digit character.
to_digit(c) == Utf8(c)[1] - 48

\* PageOfDigit without the step from page number to page index.
PageOfDigit_Number(digit) == digit

\* (digit - 1) as usize: the page index a digit key names.
PageOfDigit(digit) == digit - 1

CommandChars ==
  {"q", "n", "d", "r", "j", "k", "h", "l"}
    \cup {c \in DigitChars : to_digit(c) <= MaxPages + 1}

\* The characters the modelled user types by mistake and never commits: the
\* command characters and one character of two bytes.
StrayChars == CommandChars \cup {"e_acute"}

\* The key events the modelled terminal delivers.
Keys ==
  {CharKey(c) : c \in NameChars \cup StrayChars}
    \cup {Key(code, "", {}) :
            code \in {"Enter", "Esc", "Backspace", "Down", "Up", "Left", "Right"}}
    \cup {Key(code, "", {"SHIFT"}) : code \in {"Down", "Up", "Left", "Right"}}
    \cup {Key(code, "", {"CONTROL"}) : code \in {"Left", "Right"}}

\* The names the modelled user commits: the empty text, the default page
\* name, and the texts over NameChars of at most MaxLen bytes.
RECURSIVE TextsOver(_, _)
TextsOver(chars, n) ==
  IF n = 0 THEN {<<>>}
  ELSE LET shorter == TextsOver(chars, n - 1)
       IN  shorter \cup {t \o Utf8(c) : t \in shorter, c \in chars}

CommitNames == TextsOver(NameChars, MaxLen) \cup {MainName}

\* ------------------------------------------------------------ edit_buffer

\* What edit_buffer leaves behind: its EditResult, the buffer, the cursor,
\* and whether the call panicked instead of returning.
Edited(result, buf, cursor) ==
  [result |-> result, buf |-> buf, cursor |-> cursor, panicked |-> FALSE]

EditPanic(buf, cursor) ==
  [result |-> "None", buf |-> buf, cursor |-> cursor, panicked |-> TRUE]

\* InsertChar putting the character at the end of the buffer.
InsertChar_AtEnd(buf, cursor, c) ==
  IF cursor > Len(buf) \/ ~is_char_boundary(buf, cursor)
  THEN EditPanic(buf, cursor)
  ELSE Edited("None", buf \o Utf8(c), cursor + 1)

\* String::insert(idx, c) followed by *cursor_pos += 1.
InsertChar(buf, cursor, c) ==
  IF cursor > Len(buf) \/ ~is_char_boundary(buf, cursor)
  THEN EditPanic(buf, cursor)
  ELSE Edited("None",
              SubSeq(buf, 1, cursor) \o Utf8(c) \o SubSeq(buf, cursor + 1, Len(buf)),
              cursor + 1)

\* *cursor_pos -= 1 followed by String::remove(*cursor_pos), which takes out
\* the whole character starting at that offset.
Backspace(buf, cursor) ==
  IF cursor = 0 THEN Edited("None", buf, cursor)
  ELSE LET idx == cursor - 1
       IN  IF idx >= Len(buf) \/ ~is_char_boundary(buf, idx)
           THEN EditPanic(buf, idx)
           ELSE Edited("None",
                       SubSeq(buf, 1, idx)
                         \o SubSeq(buf, idx + len_utf8(buf[idx + 1]) + 1, Len(buf)),
                       idx)

\* while pos > 0 && bytes[pos].is_ascii_whitespace() { pos -= 1; }
RECURSIVE SkipSpaceBack(_, _)
SkipSpaceBack(bytes, pos) ==
  IF pos > 0 /\ is_ascii_whitespace(bytes[pos + 1])
  THEN SkipSpaceBack(bytes, pos - 1)
  ELSE pos

\* while pos > 0 && !bytes[pos].is_ascii_whitespace() { pos -= 1; }
RECURSIVE SkipWordBack(_, _)
SkipWordBack(bytes, pos) ==
  IF pos > 0 /\ ~is_ascii_whitespace(bytes[pos + 1])
  THEN SkipWordBack(bytes, pos - 1)
  ELSE pos

\* Ctrl+Left.
WordLeft(buf, cursor) ==
  IF cursor = 0 THEN Edited("None", buf, cursor)
  ELSE IF cursor > Len(buf) THEN EditPanic(buf, cursor)
  ELSE LET pos == SkipWordBack(buf, SkipSpaceBack(buf, cursor - 1))
       IN  Edited("None", buf,
                  IF pos > 0 \/ is_ascii_whitespace(buf[1]) THEN pos + 1 ELSE pos)

\* while pos < len && !bytes[pos].is_ascii_whitespace() { pos += 1; }
RECURSIVE SkipWordForward(_, _)
SkipWordForward(bytes, pos) ==
  IF pos < Len(bytes) /\ ~is_ascii_whitespace(bytes[pos + 1])
  THEN SkipWordForward(bytes, pos + 1)
  ELSE pos

\* SkipSpaceForward skipping nothing.
SkipSpaceForward_None(bytes, pos) == pos

\* while pos < len && bytes[pos].is_ascii_whitespace() { pos += 1; }
RECURSIVE SkipSpaceForward(_, _)
SkipSpaceForward(bytes, pos) ==
  IF pos < Len(bytes) /\ is_ascii_whitespace(bytes[pos + 1])
  THEN SkipSpaceForward(bytes, pos + 1)
  ELSE pos

\* Ctrl+Right.
WordRight(buf, cursor) ==
  IF cursor < Len(buf)
  THEN Edited("None", buf, SkipSpaceForward(buf, SkipWordForward(buf, cursor)))
  ELSE Edited("None", buf, cursor)

\* App::edit_buffer(buf, cursor_pos, key)
edit_buffer(buf, cursor, k) ==
  CASE k.code = "Enter" -> Edited("Enter", buf, cursor)
    [] k.code = "Esc" -> Edited("Esc", buf, cursor)
    [] k.code = "Char" -> InsertChar(buf, cursor, k.ch)
    [] k.code = "Backspace" -> Backspace(buf, cursor)
    [] k.code = "Left" ->
         IF "CONTROL" \in k.modifiers THEN WordLeft(buf, cursor)
         ELSE IF cursor > 0 THEN Edited("None", buf, cursor - 1)
         ELSE Edited("None", buf, cursor)
    [] k.code = "Right" ->
         IF "CONTROL" \in k.modifiers THEN WordRight(buf, cursor)
         ELSE IF cursor < Len(buf) THEN Edited("None", buf, cursor + 1)
         ELSE Edited("None", buf, cursor)
    [] OTHER -> Edited("None", buf, cursor)


\* ------------------------------------------------------------------ state

VARIABLES
  pages,                  \* App.pages: the Document
  current_page_index,     \* App.current_page_index
  selected_todo_index,    \* App.selected_todo_index
  is_creating_todo,       \* App.is_creating_todo
  new_todo_input,         \* App.new_todo_input
  is_creating_page,       \* App.is_creating_page
  new_page_name_input,    \* App.new_page_name_input
  is_renaming_page,       \* App.is_renaming_page
  rename_page_input,      \* App.rename_page_input
  is_renaming_todo,       \* App.is_renaming_todo
  rename_todo_input,      \* App.rename_todo_input
  should_quit,            \* App.should_quit
  cursor_position,        \* App.cursor_position
  disk,                   \* the data file: absent, a valid Document, or unparseable
  save_result,            \* the Result of the save call of the handling step just done
  faults,                 \* how many save calls the file system will still fail
  pc,                     \* where main and run_app stand, or how the process ended
  key,                    \* the key event read by event::read() and being handled
  raw_mode,               \* the terminal is in raw mode
  alternate_screen        \* the terminal shows the alternate screen

vars ==
  <<pages, current_page_index, selected_todo_index, is_creating_todo,
    new_todo_input, is_creating_page, new_page_name_input, is_renaming_page,
    rename_page_input, is_renaming_todo, rename_todo_input, should_quit,
    cursor_position, disk, save_result, faults, pc, key, raw_mode,
    alternate_screen>>

\* What main's setup and teardown set.
terminal_state == <<raw_mode, alternate_screen>>

flags ==
  <<is_creating_todo, is_creating_page, is_renaming_page, is_renaming_todo>>

inputs ==
  <<new_todo_input, new_page_name_input, rename_page_input, rename_todo_input>>

\* App::current_page
current_page == pages[current_page_index + 1]

\* App::current_todos
current_todos == pages[current_page_index + 1].todos

\* ui's is_in_input_mode: one of the four modal buffers is active.
is_in_input_mode ==
  is_creating_todo \/ is_creating_page \/ is_renaming_page \/ is_renaming_todo

\* The buffer process_input_event hands to edit_buffer, by its priority order.
active_input ==
  IF is_creating_todo THEN new_todo_input
  ELSE IF is_creating_page THEN new_page_name_input
  ELSE IF is_renaming_page THEN rename_page_input
  ELSE IF is_renaming_todo THEN rename_todo_input
  ELSE <<>>

\* ---------------------------------------------------------------- storage

AbsentFile == [kind |-> "absent", doc |-> <<>>]

CorruptFile == [kind |-> "corrupt", doc |-> <<>>]

ValidFile(doc) == [kind |-> "valid", doc |-> doc]

\* load_app_data: Ok(vec![]) when the file does not exist, Ok(pages) when it
\* parses, Err otherwise.
load_app_data(file) ==
  CASE file.kind = "absent" -> [ok |-> TRUE, pages |-> <<>>]
    [] file.kind = "valid" -> [ok |-> TRUE, pages |-> file.doc]
    [] OTHER -> [ok |-> FALSE, pages |-> <<>>]

\* The outcomes of one save_app_data call: written in full; failed before the
\* file was opened and truncated; failed after.
SaveOutcomes == {"ok", "err_open", "err_write"}

\* save_app_data(pages): the data file after the call.
save_app_data(file, doc, outcome) ==
  CASE outcome = "ok" -> ValidFile(doc)
    [] outcome = "err_open" -> file
    [] OTHER -> CorruptFile

\* App::new: the pages of the new App, from the result of load_app_data.
AppNewPages(loaded) ==
  LET got == IF loaded.ok THEN loaded.pages ELSE <<>>
  IN  IF got = <<>> THEN <<Page(MainName, <<>>)>> ELSE got

\* ---------------------------------------------------------------- buffers

\* drain leaving the text in the buffer.
drain_Kept(buf) == buf

\* What buf.drain(..) leaves in the buffer: nothing.
drain(buf) == <<>>

\* clear leaving the text in the buffer.
clear_Kept(buf) == buf

\* The buffer after buf.clear().
clear(buf) == <<>>

\* ------------------------------------------------------ Document updates

\* push_todo putting the new todo first.
push_todo_Front(todos, name) == <<Todo(name, FALSE)>> \o todos

\* self.current_todos_mut().push(Todo { name, completed: false })
push_todo(todos, name) == Append(todos, Todo(name, FALSE))

\* push_page creating no page for an empty name.
push_page_SkipEmpty(doc, name) ==
  IF name = <<>> THEN doc ELSE Append(doc, Page(name, <<>>))

\* self.pages.push(Page { name: page_name, todos: vec![] })
push_page(doc, name) == Append(doc, Page(name, <<>>))

\* self.pages[self.current_page_index].name = ...
rename_page(doc, index, name) == [doc EXCEPT ![index + 1].name = name]

\* rename_todo renaming the first todo, whatever the index.
rename_todo_First(todos, index, name) == [todos EXCEPT ![1].name = name]

\* self.current_todos_mut()[index].name = ...
rename_todo(todos, index, name) == [todos EXCEPT ![index + 1].name = name]

\* toggle_todo marking the todo completed, whatever it was.
toggle_todo_Set(todos, index) == [todos EXCEPT ![index + 1].completed = TRUE]

\* todo.completed = !todo.completed
toggle_todo(todos, index) == [todos EXCEPT ![index + 1].completed = ~@]

\* ------------------------------------------------------- index arithmetic

\* NextIndex stopping at the last index instead of wrapping to 0.
NextIndex_Saturating(i, len) == IF i + 1 >= len THEN i ELSE i + 1

\* (i + 1) % len
NextIndex(i, len) == (i + 1) % len

\* PrevIndex stopping at index 0 instead of wrapping to the last.
PrevIndex_Saturating(i, len) == IF i = 0 THEN 0 ELSE i - 1

\* (i + len - 1) % len
PrevIndex(i, len) == (i + len - 1) % len

\* ClampSelection without the clamp to the last index.
ClampSelection_Unclamped(sel, len) == IF len = 0 THEN 0 ELSE sel

\* The selection after a todo was removed from a list now of length len.
ClampSelection(sel, len) ==
  IF len = 0 THEN 0 ELSE IF sel >= len THEN len - 1 ELSE sel

\* ClampPageIndex without the clamp.
ClampPageIndex_Unclamped(idx, len) == idx

\* The current page index after a page was removed, len pages remaining.
ClampPageIndex(idx, len) == IF idx >= len THEN len - 1 ELSE idx

\* CanRemovePage letting the last page go.
CanRemovePage_LastToo(len) == len > 0

\* The guard of page removal: self.pages.len() > 1.
CanRemovePage(len) == len > 1

\* ------------------------------------------------------------------- Init

\* A Document of two pages, the first with two todos.
TwoPages ==
  << Page(Utf8("a"), <<Todo(Utf8("a"), FALSE), Todo(Utf8("b"), TRUE)>>),
     Page(Utf8("b"), <<>>) >>

\* The Documents the data file may hold at startup.
InitDocs == {<<>>, TwoPages}

\* The number of todos of all pages of doc.
RECURSIVE TotalTodos(_)
TotalTodos(doc) ==
  IF doc = <<>> THEN 0 ELSE Len(doc[1].todos) + TotalTodos(Tail(doc))

InitFiles == {AbsentFile, CorruptFile} \cup {ValidFile(d) : d \in InitDocs}

\* The state run_app starts in: the terminal set up by main, and App::new()
\* on the data file as found, one of files.
StartedOn(files) ==
  /\ raw_mode = TRUE
  /\ alternate_screen = TRUE
  /\ disk \in files
  /\ pages = AppNewPages(load_app_data(disk))
  /\ current_page_index = 0
  /\ selected_todo_index = 0
  /\ is_creating_todo = FALSE
  /\ new_todo_input = <<>>
  /\ is_creating_page = FALSE
  /\ new_page_name_input = <<>>
  /\ is_renaming_page = FALSE
  /\ rename_page_input = <<>>
  /\ is_renaming_todo = FALSE
  /\ rename_todo_input = <<>>
  /\ should_quit = FALSE
  /\ cursor_position = 0
  /\ save_result = "none"
  /\ pc = "draw"
  /\ key = NoKey

Started == StartedOn(InitFiles)

\* A session on a file system that fails no save.
Init == Started /\ faults = 0

\* A session on a file system that fails up to MaxSaveFailures saves.
InitIo == Started /\ faults = MaxSaveFailures

\* The state main starts in: the terminal as the shell left it, no App yet,
\* on a file system that fails up to MaxSaveFailures saves.
InitMain ==
  /\ raw_mode = FALSE
  /\ alternate_screen = FALSE
  /\ disk \in InitFiles
  /\ pages = <<>>
  /\ current_page_index = 0
  /\ selected_todo_index = 0
  /\ is_creating_todo = FALSE
  /\ new_todo_input = <<>>
  /\ is_creating_page = FALSE
  /\ new_page_name_input = <<>>
  /\ is_renaming_page = FALSE
  /\ rename_page_input = <<>>
  /\ is_renaming_todo = FALSE
  /\ rename_todo_input = <<>>
  /\ should_quit = FALSE
  /\ cursor_position = 0
  /\ save_result = "none"
  /\ faults = MaxSaveFailures
  /\ pc = "enable_raw_mode"
  /\ key = NoKey

\* ------------------------------------------------------- steps of a handler

\* The handler returns and the loop goes on to its next iteration.
Return == pc' = "draw" /\ key' = NoKey /\ UNCHANGED terminal_state

\* The handler panics: the process unwinds out of run_app and main.
Panic == pc' = "panicked" /\ key' = NoKey /\ UNCHANGED terminal_state

\* The handler makes no save call.
NoSave == save_result' = "none" /\ UNCHANGED <<disk, faults>>

\* Save writing the Document as it was before the handler changed it.
Save_BeforeUpdate(outcome) ==
  /\ outcome # "ok" => faults > 0
  /\ save_result' = outcome
  /\ disk' = save_app_data(disk, pages, outcome)
  /\ faults' = IF outcome = "ok" THEN faults ELSE faults - 1

\* One save_app_data call on the Document as the handler leaves it.
Save(outcome) ==
  /\ outcome # "ok" => faults > 0
  /\ save_result' = outcome
  /\ disk' = save_app_data(disk, pages', outcome)
  /\ faults' = IF outcome = "ok" THEN faults ELSE faults - 1

\* self.save_app_data().ok(): the Result is dropped.
SaveOk == \E outcome \in SaveOutcomes : Save(outcome) /\ Return

\* app.save_app_data().unwrap(): an Err panics.
SaveUnwrap ==
  \E outcome \in SaveOutcomes :
    Save(outcome) /\ IF outcome = "ok" THEN Return ELSE Panic

\* --------------------------------------------------------------- the loop

\* Draw going on to the poll without the quit check.
Draw_SkipsCheck ==
  /\ pc = "draw"
  /\ pc' = "poll"
  /\ save_result' = "none"
  /\ UNCHANGED <<pages, current_page_index, selected_todo_index, flags, inputs,
                 should_quit, cursor_position, disk, faults, key,
                 terminal_state>>

\* terminal.draw(|f| ui(f, app)): the frame is drawn from the state; the
\* Result of the handling step before it is gone.
Draw ==
  /\ pc = "draw"
  /\ pc' = "check"
  /\ save_result' = "none"
  /\ UNCHANGED <<pages, current_page_index, selected_todo_index, flags, inputs,
                 should_quit, cursor_position, disk, faults, key,
                 terminal_state>>

\* CheckQuit going on to the poll whatever the quit flag.
CheckQuit_Polls ==
  /\ pc = "check"
  /\ pc' = "poll"
  /\ UNCHANGED <<pages, current_page_index, selected_todo_index, flags, inputs,
                 should_quit, cursor_position, disk, save_result, faults,
                 key, terminal_state>>

\* if app.should_quit { return Ok(()); }
CheckQuit ==
  /\ pc = "check"
  /\ pc' = IF should_quit THEN "done" ELSE "poll"
  /\ UNCHANGED <<pages, current_page_index, selected_todo_index, flags, inputs,
                 should_quit, cursor_position, disk, save_result, faults,
                 key, terminal_state>>

\* event::poll(timeout) times out, or the event read is no key press.
PollNothing ==
  /\ pc = "poll"
  /\ pc' = "draw"
  /\ UNCHANGED <<pages, current_page_index, selected_todo_index, flags, inputs,
                 should_quit, cursor_position, disk, save_result, faults,
                 key, terminal_state>>

\* What the modelled user presses: any key in Normal mode; with a buffer
\* open, text of at most MaxLen bytes over NameChars, or, on the Document
\* TwoPages, one stray character into an empty buffer; and Enter only on a
\* name of CommitNames that keeps the Document within MaxPages and MaxTodos.
Offered(k) ==
  CASE ~is_in_input_mode -> TRUE
    [] is_in_input_mode /\ k.code = "Char" ->
         \/ /\ k.ch \in NameChars
            /\ Len(active_input) < MaxLen
            /\ active_input \in TextsOver(NameChars, MaxLen)
         \/ /\ k.ch \in StrayChars
            /\ active_input = <<>>
            /\ pages = TwoPages
    [] is_in_input_mode /\ k.code = "Enter" ->
         /\ active_input \in CommitNames
         /\ is_creating_todo /\ new_todo_input # <<>> =>
              TotalTodos(pages) < MaxTodos
         /\ ~is_creating_todo /\ is_creating_page => Len(pages) < MaxPages
    [] OTHER -> TRUE

\* event::read() returns a key press.
PollKey ==
  /\ pc = "poll"
  /\ \E k \in Keys : Offered(k) /\ key' = k
  /\ pc' = "handle"
  /\ UNCHANGED <<pages, current_page_index, selected_todo_index, flags, inputs,
                 should_quit, cursor_position, disk, save_result, faults,
                 terminal_state>>


\* --------------------------------------------- App::process_input_event

\* process_input_event without the return true of its last branch.
process_input_event_handled_FallThrough ==
  is_creating_todo \/ is_creating_page \/ is_renaming_page

\* What process_input_event returns: true when a modal buffer took the key.
process_input_event_handled == is_in_input_mode

\* The key moves the preview position of the todo being created.
CreatingTodoMove ==
  /\ pc = "handle"
  /\ is_creating_todo
  /\ key.code \in {"Down", "Up"}
  /\ selected_todo_index' =
       IF current_todos = <<>> THEN selected_todo_index
       ELSE IF key.code = "Down"
            THEN NextIndex(selected_todo_index, Len(current_todos))
            ELSE PrevIndex(selected_todo_index, Len(current_todos))
  /\ NoSave
  /\ Return
  /\ UNCHANGED <<pages, current_page_index, flags, inputs, should_quit,
                 cursor_position>>

\* if self.is_creating_todo { ... }, the keys edit_buffer sees.
CreatingTodoKey ==
  /\ pc = "handle"
  /\ is_creating_todo
  /\ key.code \notin {"Down", "Up"}
  /\ LET e == edit_buffer(new_todo_input, cursor_position, key)
     IN  \/ /\ e.panicked
            /\ Panic
            /\ NoSave
            /\ UNCHANGED <<pages, current_page_index, selected_todo_index, flags,
                           inputs, should_quit, cursor_position>>
         \/ /\ ~e.panicked
            /\ e.result = "Enter"
            /\ new_todo_input # <<>>
            /\ pages' = [pages EXCEPT ![current_page_index + 1].todos =
                           push_todo(@, new_todo_input)]
            /\ selected_todo_index' = Len(pages'[current_page_index + 1].todos) - 1
            /\ new_todo_input' = drain(new_todo_input)
            /\ is_creating_todo' = FALSE
            /\ cursor_position' = 0
            /\ SaveOk
            /\ UNCHANGED <<current_page_index, is_creating_page, is_renaming_page,
                           is_renaming_todo, new_page_name_input, rename_page_input,
                           rename_todo_input, should_quit>>
         \/ /\ ~e.panicked
            /\ e.result = "Enter"
            /\ new_todo_input = <<>>
            /\ is_creating_todo' = FALSE
            /\ cursor_position' = 0
            /\ NoSave
            /\ Return
            /\ UNCHANGED <<pages, current_page_index, selected_todo_index,
                           is_creating_page, is_renaming_page, is_renaming_todo,
                           inputs, should_quit>>
         \/ /\ ~e.panicked
            /\ e.result = "Esc"
            /\ is_creating_todo' = FALSE
            /\ new_todo_input' = clear(new_todo_input)
            /\ cursor_position' = 0
            /\ NoSave
            /\ Return
            /\ UNCHANGED <<pages, current_page_index, selected_todo_index,
                           is_creating_page, is_renaming_page, is_renaming_todo,
                           new_page_name_input, rename_page_input, rename_todo_input,
                           should_quit>>
         \/ /\ ~e.panicked
            /\ e.result = "None"
            /\ new_todo_input' = e.buf
            /\ cursor_position' = e.cursor
            /\ NoSave
            /\ Return
            /\ UNCHANGED <<pages, current_page_index, selected_todo_index, flags,
                           new_page_name_input, rename_page_input, rename_todo_input,
                           should_quit>>

\* if self.is_creating_page { ... }
CreatingPageKey ==
  /\ pc = "handle"
  /\ ~is_creating_todo
  /\ is_creating_page
  /\ LET e == edit_buffer(new_page_name_input, cursor_position, key)
     IN  \/ /\ e.panicked
            /\ Panic
            /\ NoSave
            /\ UNCHANGED <<pages, current_page_index, selected_todo_index, flags,
                           inputs, should_quit, cursor_position>>
         \/ /\ ~e.panicked
            /\ e.result = "Enter"
            /\ pages' = push_page(pages, new_page_name_input)
            /\ new_page_name_input' = <<>>
            /\ current_page_index' = Len(pages') - 1
            /\ selected_todo_index' = 0
            /\ is_creating_page' = FALSE
            /\ cursor_position' = 0
            /\ SaveOk
            /\ UNCHANGED <<is_creating_todo, is_renaming_page, is_renaming_todo,
                           new_todo_input, rename_page_input, rename_todo_input,
                           should_quit>>
         \/ /\ ~e.panicked
            /\ e.result = "Esc"
            /\ is_creating_page' = FALSE
            /\ new_page_name_input' = clear(new_page_name_input)
            /\ cursor_position' = 0
            /\ NoSave
            /\ Return
            /\ UNCHANGED <<pages, current_page_index, selected_todo_index,
                           is_creating_todo, is_renaming_page, is_renaming_todo,
                           new_todo_input, rename_page_input, rename_todo_input,
                           should_quit>>
         \/ /\ ~e.panicked
            /\ e.result = "None"
            /\ new_page_name_input' = e.buf
            /\ cursor_position' = e.cursor
            /\ NoSave
            /\ Return
            /\ UNCHANGED <<pages, current_page_index, selected_todo_index, flags,
                           new_todo_input, rename_page_input, rename_todo_input,
                           should_quit>>

\* if self.is_renaming_page { ... }
RenamingPageKey ==
  /\ pc = "handle"
  /\ ~is_creating_todo
  /\ ~is_creating_page
  /\ is_renaming_page
  /\ LET e == edit_buffer(rename_page_input, cursor_position, key)
     IN  \/ /\ e.panicked
            /\ Panic
            /\ NoSave
            /\ UNCHANGED <<pages, current_page_index, selected_todo_index, flags,
                           inputs, should_quit, cursor_position>>
         \/ /\ ~e.panicked
            /\ e.result = "Enter"
            /\ rename_page_input = <<>>
            /\ CanRemovePage(Len(pages))
            /\ pages' = RemoveAt(pages, current_page_index)
            /\ current_page_index' = ClampPageIndex(current_page_index, Len(pages'))
            /\ selected_todo_index' = 0
            /\ is_renaming_page' = FALSE
            /\ rename_page_input' = <<>>
            /\ SaveOk
            /\ UNCHANGED <<is_creating_todo, is_creating_page, is_renaming_todo,
                           new_todo_input, new_page_name_input, rename_todo_input,
                           should_quit, cursor_position>>
         \/ /\ ~e.panicked
            /\ e.result = "Enter"
            /\ rename_page_input = <<>>
            /\ ~CanRemovePage(Len(pages))
            /\ is_renaming_page' = FALSE
            /\ rename_page_input' = <<>>
            /\ pages' = pages
            /\ SaveOk
            /\ UNCHANGED <<current_page_index, selected_todo_index,
                           is_creating_todo, is_creating_page, is_renaming_todo,
                           new_todo_input, new_page_name_input, rename_todo_input,
                           should_quit, cursor_position>>
         \/ /\ ~e.panicked
            /\ e.result = "Enter"
            /\ rename_page_input # <<>>
            /\ pages' = rename_page(pages, current_page_index, rename_page_input)
            /\ is_renaming_page' = FALSE
            /\ rename_page_input' = <<>>
            /\ SaveOk
            /\ UNCHANGED <<current_page_index, selected_todo_index,
                           is_creating_todo, is_creating_page, is_renaming_todo,
                           new_todo_input, new_page_name_input, rename_todo_input,
                           should_quit, cursor_position>>
         \/ /\ ~e.panicked
            /\ e.result = "Esc"
            /\ is_renaming_page' = FALSE
            /\ rename_page_input' = clear(rename_page_input)
            /\ NoSave
            /\ Return
            /\ UNCHANGED <<pages, current_page_index, selected_todo_index,
                           is_creating_todo, is_creating_page, is_renaming_todo,
                           new_todo_input, new_page_name_input, rename_todo_input,
                           should_quit, cursor_position>>
         \/ /\ ~e.panicked
            /\ e.result = "None"
            /\ rename_page_input' = e.buf
            /\ cursor_position' = e.cursor
            /\ NoSave
            /\ Return
            /\ UNCHANGED <<pages, current_page_index, selected_todo_index, flags,
                           new_todo_input, new_page_name_input, rename_todo_input,
                           should_quit>>

\* if self.is_renaming_todo { ... }
RenamingTodoKey ==
  /\ pc = "handle"
  /\ ~is_creating_todo
  /\ ~is_creating_page
  /\ ~is_renaming_page
  /\ is_renaming_todo
  /\ LET e == edit_buffer(rename_todo_input, cursor_position, key)
         index == selected_todo_index
     IN  \/ /\ e.panicked
            /\ Panic
            /\ NoSave
            /\ UNCHANGED <<pages, current_page_index, selected_todo_index, flags,
                           inputs, should_quit, cursor_position>>
         \/ /\ ~e.panicked
            /\ e.result = "Enter"
            /\ current_todos # <<>>
            /\ rename_todo_input = <<>>
            /\ pages' = [pages EXCEPT ![current_page_index + 1].todos =
                           RemoveAt(@, index)]
            /\ selected_todo_index' =
                 ClampSelection(selected_todo_index,
                                Len(pages'[current_page_index + 1].todos))
            /\ is_renaming_todo' = FALSE
            /\ rename_todo_input' = <<>>
            /\ SaveOk
            /\ UNCHANGED <<current_page_index, is_creating_todo, is_creating_page,
                           is_renaming_page, new_todo_input, new_page_name_input,
                           rename_page_input, should_quit, cursor_position>>
         \/ /\ ~e.panicked
            /\ e.result = "Enter"
            /\ current_todos # <<>>
            /\ rename_todo_input # <<>>
            /\ pages' = [pages EXCEPT ![current_page_index + 1].todos =
                           rename_todo(@, index, rename_todo_input)]
            /\ is_renaming_todo' = FALSE
            /\ rename_todo_input' = <<>>
            /\ SaveOk
            /\ UNCHANGED <<current_page_index, selected_todo_index,
                           is_creating_todo, is_creating_page, is_renaming_page,
                           new_todo_input, new_page_name_input, rename_page_input,
                           should_quit, cursor_position>>
         \/ /\ ~e.panicked
            /\ e.result = "Enter"
            /\ current_todos = <<>>
            /\ is_renaming_todo' = FALSE
            /\ rename_todo_input' = <<>>
            /\ NoSave
            /\ Return
            /\ UNCHANGED <<pages, current_page_index, selected_todo_index,
                           is_creating_todo, is_creating_page, is_renaming_page,
                           new_todo_input, new_page_name_input, rename_page_input,
                           should_quit, cursor_position>>
         \/ /\ ~e.panicked
            /\ e.result = "Esc"
            /\ is_renaming_todo' = FALSE
            /\ rename_todo_input' = clear(rename_todo_input)
            /\ NoSave
            /\ Return
            /\ UNCHANGED <<pages, current_page_index, selected_todo_index,
                           is_creating_todo, is_creating_page, is_renaming_page,
                           new_todo_input, new_page_name_input, rename_page_input,
                           should_quit, cursor_position>>
         \/ /\ ~e.panicked
            /\ e.result = "None"
            /\ rename_todo_input' = e.buf
            /\ cursor_position' = e.cursor
            /\ NoSave
            /\ Return
            /\ UNCHANGED <<pages, current_page_index, selected_todo_index, flags,
                           new_todo_input, new_page_name_input, rename_page_input,
                           should_quit>>


\* ------------------------------------------------ run_app: Normal mode

\* NormalKey with the result of process_input_event ignored.
NormalKey_Always == pc = "handle"

\* The key reached run_app's match: process_input_event returned false.
NormalKey == pc = "handle" /\ ~process_input_event_handled

IsChar(k, c) == k.code = "Char" /\ k.ch = c

\* KeyCode::Char('q')
KeyQuit ==
  /\ NormalKey
  /\ IsChar(key, "q")
  /\ should_quit' = TRUE
  /\ NoSave
  /\ Return
  /\ UNCHANGED <<pages, current_page_index, selected_todo_index, flags, inputs,
                 cursor_position>>

\* KeyCode::Char('n')
KeyNewTodo ==
  /\ NormalKey
  /\ IsChar(key, "n")
  /\ is_creating_todo' = TRUE
  /\ cursor_position' = Len(new_todo_input)
  /\ NoSave
  /\ Return
  /\ UNCHANGED <<pages, current_page_index, selected_todo_index,
                 is_creating_page, is_renaming_page, is_renaming_todo, inputs,
                 should_quit>>

\* KeyCode::Down | KeyCode::Char('j')
KeyDown ==
  /\ NormalKey
  /\ key.code = "Down" \/ IsChar(key, "j")
  /\ \/ /\ "SHIFT" \in key.modifiers
        /\ Len(current_todos) > 1
        /\ LET current == selected_todo_index
               next == NextIndex(current, Len(current_todos))
           IN  /\ pages' = [pages EXCEPT ![current_page_index + 1].todos =
                              SwapAt(@, current, next)]
               /\ selected_todo_index' = next
        /\ SaveUnwrap
     \/ /\ "SHIFT" \in key.modifiers
        /\ Len(current_todos) <= 1
        /\ NoSave
        /\ Return
        /\ UNCHANGED <<pages, selected_todo_index>>
     \/ /\ "SHIFT" \notin key.modifiers
        /\ selected_todo_index' =
             IF current_todos = <<>> THEN selected_todo_index
             ELSE NextIndex(selected_todo_index, Len(current_todos))
        /\ NoSave
        /\ Return
        /\ UNCHANGED pages
  /\ UNCHANGED <<current_page_index, flags, inputs, should_quit, cursor_position>>

\* KeyCode::Up | KeyCode::Char('k')
KeyUp ==
  /\ NormalKey
  /\ key.code = "Up" \/ IsChar(key, "k")
  /\ \/ /\ "SHIFT" \in key.modifiers
        /\ Len(current_todos) > 1
        /\ LET current == selected_todo_index
               prev == PrevIndex(current, Len(current_todos))
           IN  /\ pages' = [pages EXCEPT ![current_page_index + 1].todos =
                              SwapAt(@, current, prev)]
               /\ selected_todo_index' = prev
        /\ SaveUnwrap
     \/ /\ "SHIFT" \in key.modifiers
        /\ Len(current_todos) <= 1
        /\ NoSave
        /\ Return
        /\ UNCHANGED <<pages, selected_todo_index>>
     \/ /\ "SHIFT" \notin key.modifiers
        /\ selected_todo_index' =
             IF current_todos = <<>> THEN selected_todo_index
             ELSE PrevIndex(selected_todo_index, Len(current_todos))
        /\ NoSave
        /\ Return
        /\ UNCHANGED pages
  /\ UNCHANGED <<current_page_index, flags, inputs, should_quit, cursor_position>>

\* KeyCode::Enter
KeyEnter ==
  /\ NormalKey
  /\ key.code = "Enter"
  /\ \/ /\ current_todos # <<>>
        /\ pages' = [pages EXCEPT ![current_page_index + 1].todos =
                       toggle_todo(@, selected_todo_index)]
        /\ SaveUnwrap
     \/ /\ current_todos = <<>>
        /\ NoSave
        /\ Return
        /\ UNCHANGED pages
  /\ UNCHANGED <<current_page_index, selected_todo_index, flags, inputs,
                 should_quit, cursor_position>>

\* KeyCode::Char('d')
KeyDelete ==
  /\ NormalKey
  /\ IsChar(key, "d")
  /\ \/ /\ current_todos # <<>>
        /\ pages' = [pages EXCEPT ![current_page_index + 1].todos =
                       RemoveAt(@, selected_todo_index)]
        /\ selected_todo_index' =
             ClampSelection(selected_todo_index,
                            Len(pages'[current_page_index + 1].todos))
        /\ SaveUnwrap
     \/ /\ current_todos = <<>>
        /\ NoSave
        /\ Return
        /\ UNCHANGED <<pages, selected_todo_index>>
  /\ UNCHANGED <<current_page_index, flags, inputs, should_quit, cursor_position>>

\* KeyCode::Char('r')
KeyRename ==
  /\ NormalKey
  /\ IsChar(key, "r")
  /\ \/ /\ current_todos # <<>>
        /\ rename_todo_input' = current_todos[selected_todo_index + 1].name
        /\ cursor_position' = Len(rename_todo_input')
        /\ is_renaming_todo' = TRUE
     \/ /\ current_todos = <<>>
        /\ UNCHANGED <<rename_todo_input, cursor_position, is_renaming_todo>>
  /\ NoSave
  /\ Return
  /\ UNCHANGED <<pages, current_page_index, selected_todo_index,
                 is_creating_todo, is_creating_page, is_renaming_page,
                 new_todo_input, new_page_name_input, rename_page_input,
                 should_quit>>

\* KeyCode::Right | KeyCode::Char('l')
KeyRight ==
  /\ NormalKey
  /\ key.code = "Right" \/ IsChar(key, "l")
  /\ \/ /\ "SHIFT" \in key.modifiers
        /\ Len(pages) > 1
        /\ LET current == current_page_index
               next == NextIndex(current, Len(pages))
           IN  /\ pages' = SwapAt(pages, current, next)
               /\ current_page_index' = next
        /\ SaveUnwrap
        /\ UNCHANGED selected_todo_index
     \/ /\ "SHIFT" \in key.modifiers
        /\ Len(pages) <= 1
        /\ NoSave
        /\ Return
        /\ UNCHANGED <<pages, current_page_index, selected_todo_index>>
     \/ /\ "SHIFT" \notin key.modifiers
        /\ pages # <<>>
        /\ current_page_index' = NextIndex(current_page_index, Len(pages))
        /\ selected_todo_index' = 0
        /\ NoSave
        /\ Return
        /\ UNCHANGED pages
  /\ UNCHANGED <<flags, inputs, should_quit, cursor_position>>

\* KeyCode::Left | KeyCode::Char('h')
KeyLeft ==
  /\ NormalKey
  /\ key.code = "Left" \/ IsChar(key, "h")
  /\ \/ /\ "SHIFT" \in key.modifiers
        /\ Len(pages) > 1
        /\ LET current == current_page_index
               prev == PrevIndex(current, Len(pages))
           IN  /\ pages' = SwapAt(pages, current, prev)
               /\ current_page_index' = prev
        /\ SaveUnwrap
        /\ UNCHANGED selected_todo_index
     \/ /\ "SHIFT" \in key.modifiers
        /\ Len(pages) <= 1
        /\ NoSave
        /\ Return
        /\ UNCHANGED <<pages, current_page_index, selected_todo_index>>
     \/ /\ "SHIFT" \notin key.modifiers
        /\ pages # <<>>
        /\ current_page_index' = PrevIndex(current_page_index, Len(pages))
        /\ selected_todo_index' = 0
        /\ NoSave
        /\ Return
        /\ UNCHANGED pages
  /\ UNCHANGED <<flags, inputs, should_quit, cursor_position>>

\* KeyCode::Char(c @ '1'..='9')
KeyDigit ==
  /\ NormalKey
  /\ key.code = "Char"
  /\ key.ch \in DigitChars
  /\ LET page_index == PageOfDigit(to_digit(key.ch))
     IN  \/ /\ page_index < Len(pages)
            /\ page_index = current_page_index
            /\ rename_page_input' = current_page.name
            /\ cursor_position' = Len(rename_page_input')
            /\ is_renaming_page' = TRUE
            /\ UNCHANGED <<current_page_index, selected_todo_index,
                           is_creating_page, new_page_name_input>>
         \/ /\ page_index < Len(pages)
            /\ page_index # current_page_index
            /\ current_page_index' = page_index
            /\ selected_todo_index' = 0
            /\ UNCHANGED <<is_renaming_page, is_creating_page, rename_page_input,
                           new_page_name_input, cursor_position>>
         \/ /\ page_index >= Len(pages)
            /\ is_creating_page' = TRUE
            /\ new_page_name_input' = <<>>
            /\ cursor_position' = 0
            /\ UNCHANGED <<current_page_index, selected_todo_index,
                           is_renaming_page, rename_page_input>>
  /\ NoSave
  /\ Return
  /\ UNCHANGED <<pages, is_creating_todo, is_renaming_todo, new_todo_input,
                 rename_todo_input, should_quit>>

\* _ => {}
KeyOther ==
  /\ NormalKey
  /\ key.code \notin {"Down", "Up", "Enter", "Right", "Left"}
  /\ key.code = "Char" =>
       key.ch \notin {"q", "n", "j", "k", "d", "r", "l", "h"} \cup DigitChars
  /\ NoSave
  /\ Return
  /\ UNCHANGED <<pages, current_page_index, selected_todo_index, flags, inputs,
                 should_quit, cursor_position>>

\* ---------------------------------------------------------- specification

Next ==
  \/ Draw
  \/ CheckQuit
  \/ PollNothing
  \/ PollKey
  \/ CreatingTodoMove
  \/ CreatingTodoKey
  \/ CreatingPageKey
  \/ RenamingPageKey
  \/ RenamingTodoKey
  \/ KeyQuit
  \/ KeyNewTodo
  \/ KeyDown
  \/ KeyUp
  \/ KeyEnter
  \/ KeyDelete
  \/ KeyRename
  \/ KeyRight
  \/ KeyLeft
  \/ KeyDigit
  \/ KeyOther

Spec == Init /\ [][Next]_vars

SpecIo == InitIo /\ [][Next]_vars

\* Spec with the loop going on: run_app is sequential code, and a draw or
\* a quit check that is reached is executed.
SpecLive == Spec /\ WF_vars(Draw) /\ WF_vars(CheckQuit)

\* ------------------------------------------------------- editing sessions

\* The characters typed into a buffer: a letter, a space, and a character
\* of two bytes.
EditChars == {"a", " ", "e_acute"}

\* The Document of the editing sessions: one page, named by a character of
\* two bytes, with one todo whose name starts with a space.
EditPages ==
  <<Page(Utf8("e_acute"), <<Todo(Utf8(" ") \o Utf8("a"), FALSE)>>)>>

\* The keys of the editing sessions: those that open a buffer, those
\* edit_buffer edits with, and Esc.
EditKeys ==
  {CharKey(c) : c \in EditChars \cup {"n", "r", "1", "2"}}
    \cup {Key(code, "", {}) : code \in {"Esc", "Backspace", "Left", "Right"}}
    \cup {Key(code, "", {"CONTROL"}) : code \in {"Left", "Right"}}

\* What the user of an editing session presses: in Normal mode a key that
\* opens a buffer; with a buffer open, a character that keeps the buffer
\* within MaxEditLen bytes, a cursor key, Backspace or Esc.
OfferedEdit(k) ==
  IF ~is_in_input_mode
  THEN k.code = "Char" /\ k.ch \in {"n", "r", "1", "2"}
  ELSE k.code = "Char" =>
         /\ k.ch \in EditChars
         /\ Len(active_input) + Len(Utf8(k.ch)) <= MaxEditLen

\* event::read() returns a key press of an editing session.
PollEdit ==
  /\ pc = "poll"
  /\ \E k \in EditKeys : OfferedEdit(k) /\ key' = k
  /\ pc' = "handle"
  /\ UNCHANGED <<pages, current_page_index, selected_todo_index, flags, inputs,
                 should_quit, cursor_position, disk, save_result, faults,
                 terminal_state>>

\* A session started on EditPages, on a file system that fails no save.
InitEdit == StartedOn({ValidFile(EditPages)}) /\ faults = 0

NextEdit ==
  \/ Draw
  \/ CheckQuit
  \/ PollEdit
  \/ CreatingTodoKey
  \/ CreatingPageKey
  \/ RenamingPageKey
  \/ RenamingTodoKey
  \/ KeyNewTodo
  \/ KeyRename
  \/ KeyDigit

\* The sessions in which buffers are opened, edited and discarded.
SpecEdit == InitEdit /\ [][NextEdit]_vars

\* ------------------------------------------------------------------- main

\* What main's steps leave alone: the App, the data file and the key.
app_state ==
  <<pages, current_page_index, selected_todo_index, flags, inputs, should_quit,
    cursor_position, disk, save_result, faults, key>>

\* enable_raw_mode()?
EnableRawMode ==
  /\ pc = "enable_raw_mode"
  /\ \/ raw_mode' = TRUE /\ pc' = "enter_alternate_screen"
     \/ raw_mode' = raw_mode /\ pc' = "setup_failed"
  /\ UNCHANGED <<alternate_screen, app_state>>

\* execute!(stdout, EnterAlternateScreen, EnableMouseCapture)?: on an Err
\* the escape sequence may or may not have reached the terminal.
EnterAlternateScreen ==
  /\ pc = "enter_alternate_screen"
  /\ \/ alternate_screen' = TRUE /\ pc' = "terminal_new"
     \/ alternate_screen' \in BOOLEAN /\ pc' = "setup_failed"
  /\ UNCHANGED <<raw_mode, app_state>>

\* Terminal::new(backend)?
TerminalNew ==
  /\ pc = "terminal_new"
  /\ pc' \in {"app_new", "setup_failed"}
  /\ UNCHANGED <<terminal_state, app_state>>

\* let mut app = App::new(); run_app is entered next.
AppNew ==
  /\ pc = "app_new"
  /\ pages' = AppNewPages(load_app_data(disk))
  /\ pc' = "draw"
  /\ UNCHANGED <<current_page_index, selected_todo_index, flags, inputs,
                 should_quit, cursor_position, disk, save_result, faults, key,
                 terminal_state>>

\* terminal.draw(...)? returns the Err out of run_app.
DrawFails ==
  /\ pc = "draw"
  /\ pc' = "failed"
  /\ UNCHANGED <<terminal_state, app_state>>

\* event::poll(timeout)? or event::read()? returns the Err out of run_app.
PollFails ==
  /\ pc = "poll"
  /\ pc' = "failed"
  /\ UNCHANGED <<terminal_state, app_state>>

\* disable_raw_mode()?, run_app having returned Ok or Err.
DisableRawMode ==
  /\ pc \in {"done", "failed"}
  /\ \/ raw_mode' = FALSE /\ pc' = "leave_alternate_screen"
     \/ raw_mode' = raw_mode /\ pc' = "restore_failed"
  /\ UNCHANGED <<alternate_screen, app_state>>

\* execute!(terminal.backend_mut(), LeaveAlternateScreen, DisableMouseCapture)?
LeaveAlternateScreen ==
  /\ pc = "leave_alternate_screen"
  /\ \/ alternate_screen' = FALSE /\ pc' = "show_cursor"
     \/ alternate_screen' \in BOOLEAN /\ pc' = "restore_failed"
  /\ UNCHANGED <<raw_mode, app_state>>

\* terminal.show_cursor()?, the println of an Err of run_app, and the return.
ShowCursor ==
  /\ pc = "show_cursor"
  /\ pc' = "exited"
  /\ UNCHANGED <<terminal_state, app_state>>

NextMain ==
  \/ Next
  \/ EnableRawMode
  \/ EnterAlternateScreen
  \/ TerminalNew
  \/ AppNew
  \/ DrawFails
  \/ PollFails
  \/ DisableRawMode
  \/ LeaveAlternateScreen
  \/ ShowCursor

\* The whole program, from the start of main to the end of the process.
SpecMain == InitMain /\ [][NextMain]_vars


\* ------------------------------------------------------------- properties

\* The key being handled is the character c.
Handling(c) == pc = "handle" /\ IsChar(key, c)

\* The key being handled has the code given, whatever its modifiers.
HandlingCode(code) == pc = "handle" /\ key.code = code

\* The step is the handling of one key event.
HandlingStep == pc = "handle" /\ pc' # "handle"

\* C1: whatever keys were handled, selected_todo_index is 0 when the current
\* page has no todos and otherwise an index of its todo list.
C1_SelectionInRange ==
  IF Len(pages[current_page_index + 1].todos) = 0
  THEN selected_todo_index = 0
  ELSE /\ selected_todo_index >= 0
       /\ selected_todo_index < Len(pages[current_page_index + 1].todos)

\* The last todo of the first page of TwoPages was just removed, and the
\* selection, which was on it, is on the todo that remains.
C1_Witness ==
  /\ pc = "draw"
  /\ save_result = "ok"
  /\ pages = <<Page(Utf8("a"), <<Todo(Utf8("a"), FALSE)>>), Page(Utf8("b"), <<>>)>>
  /\ current_page_index = 0
  /\ selected_todo_index = 0
  /\ cursor_position = 0

\* C2: the Document always holds a page and current_page_index is an index
\* of it; as long as the data file is absent or holds the empty Document,
\* the Document is the single page "main" without todos.
C2_PageExists ==
  /\ Len(pages) >= 1
  /\ current_page_index >= 0
  /\ current_page_index < Len(pages)
  /\ (disk.kind = "absent" \/ (disk.kind = "valid" /\ disk.doc = <<>>)) =>
       pages = <<[name |-> MainName, todos |-> <<>>]>>

\* Enter on an empty rename buffer is being handled while the Document
\* holds one page only.
C2_Witness ==
  /\ HandlingCode("Enter")
  /\ is_renaming_page
  /\ rename_page_input = <<>>
  /\ Len(pages) = 1
  /\ disk.kind = "absent"

\* The number of modal flags that are set.
FlagsSet ==
  Cardinality({i \in 1..4 : flags[i]})

\* C3: at most one of the four modal flags is set, and a step that sets one
\* starts from the state where none is set.
C3_OneMode ==
  /\ [](FlagsSet <= 1)
  /\ [][(\E i \in 1..4 : flags'[i] /\ ~flags[i]) => FlagsSet = 0]_vars

\* A rename of a todo is open, entered from Normal mode by r.
C3_Witness ==
  /\ pc = "draw"
  /\ is_renaming_todo
  /\ rename_todo_input = Utf8("b")
  /\ cursor_position = 1


\* The step called save on the Document as the step leaves it, and the data
\* file holds that Document if the call succeeded.
Persisted ==
  /\ save_result' # "none"
  /\ save_result' = "ok" => disk' = [kind |-> "valid", doc |-> pages']

\* C4: a step that changes the Document is the handling of a key and calls
\* save on the changed Document; while no save has failed, the Document a
\* restart would load is the Document in memory whenever the loop polls.
C4_SavedInStep ==
  /\ [][pages' # pages => HandlingStep /\ Persisted]_vars
  /\ [](pc = "poll" /\ faults = MaxSaveFailures =>
          AppNewPages(load_app_data(disk)) = pages)

\* The loop polls after Enter completed the first todo of TwoPages, with
\* the data file holding the changed Document.
C4_Witness ==
  /\ pc = "poll"
  /\ pages = [TwoPages EXCEPT ![1].todos[1].completed = TRUE]
  /\ disk = [kind |-> "valid", doc |-> pages]
  /\ faults = MaxSaveFailures

\* Where Down or Up takes the selection on a list of len todos.
Moved(sel, len, code) ==
  IF len = 0 THEN sel
  ELSE IF code = "Down" THEN (sel + 1) % len ELSE (sel + len - 1) % len

\* The handling of Down or Up while a modal buffer is active.
ModalMove == HandlingStep /\ is_in_input_mode /\ key.code \in {"Down", "Up"}

\* C5 as stated: with any modal buffer active, Down and Up move the
\* selection cyclically and change neither buffer nor mode.
C5_AnyModalBufferMoves ==
  [][ModalMove =>
       /\ selected_todo_index' =
            Moved(selected_todo_index, Len(current_todos), key.code)
       /\ UNCHANGED <<flags, inputs>>]_vars

\* C5, amended: with the new-todo buffer active, Down and Up move the
\* selection cyclically over the current page's todos (not at all when it
\* has none); with one of the other three buffers active they leave the
\* selection where it is; either way the Document, the current page, the
\* buffers, the cursor and the mode stay as they are.
C5_NewTodoBufferMoves ==
  [][ModalMove =>
       /\ selected_todo_index' =
            IF is_creating_todo
            THEN Moved(selected_todo_index, Len(current_todos), key.code)
            ELSE selected_todo_index
       /\ UNCHANGED <<pages, current_page_index, flags, inputs, cursor_position,
                      should_quit>>]_vars

\* Down is being handled with the new-todo buffer active and the selection
\* on the last of two todos.
C5_Witness ==
  /\ HandlingCode("Down")
  /\ is_creating_todo
  /\ Len(current_todos) = 2
  /\ selected_todo_index = 1

\* C6: the handling of a key while a modal buffer is active does not set the
\* quit flag; changes the Document or the current page only on Enter, and
\* then not by toggling the selected todo; moves the selection only on
\* Enter, Up and Down; changes the mode only on Enter and Esc, and then to
\* Normal; and on a character inserts it into the active buffer at the
\* cursor, leaving the other buffers as they are, unless the insert panics.
C6_ModalKeysOnly ==
  [][HandlingStep /\ is_in_input_mode =>
       /\ should_quit' = should_quit
       /\ key.code # "Enter" =>
            pages' = pages /\ current_page_index' = current_page_index
       /\ key.code = "Enter" /\ current_todos # <<>> =>
            pages' # [pages EXCEPT
                        ![current_page_index + 1].todos[selected_todo_index + 1].completed =
                          ~@]
       /\ key.code \notin {"Enter", "Up", "Down"} =>
            selected_todo_index' = selected_todo_index
       /\ key.code \notin {"Enter", "Esc"} => flags' = flags
       /\ key.code \in {"Enter", "Esc"} => FlagsSet' = 0
       /\ key.code = "Char" /\ pc' # "panicked" =>
            /\ active_input' =
                 SubSeq(active_input, 1, cursor_position) \o Utf8(key.ch)
                   \o SubSeq(active_input, cursor_position + 1, Len(active_input))
            /\ cursor_position' = cursor_position + 1
            /\ \A i \in 1..4 : ~flags[i] => inputs'[i] = inputs[i]]_vars

\* The rename buffer of a todo of TwoPages holds a d typed into it, and
\* the Document is as it was.
C6_Witness ==
  /\ pc = "draw"
  /\ is_renaming_todo
  /\ rename_todo_input = Utf8("d")
  /\ cursor_position = 1
  /\ pages = TwoPages
  /\ ~should_quit

\* The handling of Enter with the rename-page buffer active.
RenamePageCommit == HandlingStep /\ is_renaming_page /\ key.code = "Enter"

\* C7: Enter with the rename-page buffer active removes the current page when
\* the buffer is empty and another page exists, setting the current page
\* index to the smaller of itself and the new last index and the selection
\* to 0; leaves the Document as it is when the buffer is empty and the page
\* is the only one; and otherwise sets the current page's name to the
\* buffer, nothing else. In each case it saves and returns to Normal.
C7_RenamePageCommit ==
  [][RenamePageCommit =>
       /\ rename_page_input = <<>> /\ Len(pages) > 1 =>
            /\ pages' = SubSeq(pages, 1, current_page_index)
                          \o SubSeq(pages, current_page_index + 2, Len(pages))
            /\ current_page_index' =
                 IF current_page_index > Len(pages) - 2
                 THEN Len(pages) - 2
                 ELSE current_page_index
            /\ selected_todo_index' = 0
       /\ rename_page_input = <<>> /\ Len(pages) = 1 =>
            UNCHANGED <<pages, current_page_index, selected_todo_index>>
       /\ rename_page_input # <<>> =>
            /\ pages' = [pages EXCEPT ![current_page_index + 1].name =
                           rename_page_input]
            /\ UNCHANGED <<current_page_index, selected_todo_index>>
       /\ Persisted
       /\ FlagsSet' = 0]_vars

\* The second page of TwoPages, the current one, was just removed by Enter
\* on an emptied rename buffer, and the first page is the current one.
C7_Witness ==
  /\ pc = "draw"
  /\ save_result = "ok"
  /\ pages = <<TwoPages[1]>>
  /\ current_page_index = 0
  /\ selected_todo_index = 0
  /\ cursor_position = 0
  /\ FlagsSet = 0

\* The handling of Enter with the new-todo buffer active.
NewTodoCommit == HandlingStep /\ is_creating_todo /\ key.code = "Enter"

\* C8: Enter with the new-todo buffer active and not empty appends a todo
\* named as the buffer and not completed to the current page, selects it and
\* saves; with the buffer empty it leaves the Document and the data file as
\* they are and calls no save. Either way the buffer is emptied, the cursor
\* set to 0 and the mode Normal. On the Document of the single page "main"
\* without todos the result is that page with the one todo, selection 0,
\* and the data file holding it.
C8_NewTodoCommit ==
  [][NewTodoCommit =>
       /\ new_todo_input # <<>> =>
            /\ pages' = [pages EXCEPT ![current_page_index + 1].todos =
                           Append(@, [name |-> new_todo_input, completed |-> FALSE])]
            /\ selected_todo_index' = Len(current_todos)
            /\ Persisted
       /\ new_todo_input = <<>> =>
            /\ UNCHANGED <<pages, disk>>
            /\ save_result' = "none"
       /\ new_todo_input # <<>> /\ pages = <<[name |-> MainName, todos |-> <<>>]>> =>
            /\ pages' = <<[name |-> MainName,
                           todos |-> <<[name |-> new_todo_input,
                                        completed |-> FALSE]>>]>>
            /\ selected_todo_index' = 0
            /\ save_result' = "ok" => disk' = [kind |-> "valid", doc |-> pages']
       /\ new_todo_input' = <<>>
       /\ cursor_position' = 0
       /\ current_page_index' = current_page_index
       /\ FlagsSet' = 0]_vars

\* Started without a data file, the page "main" holds the one todo just
\* committed, selected, and the data file holds the same.
C8_Witness ==
  /\ pc = "draw"
  /\ save_result = "ok"
  /\ pages = <<Page(MainName, <<Todo(Utf8("a"), FALSE)>>)>>
  /\ selected_todo_index = 0
  /\ disk = ValidFile(pages)
  /\ new_todo_input = <<>>
  /\ cursor_position = 0
  /\ FlagsSet = 0

\* The handling of Enter with the new-page buffer active.
NewPageCommit == HandlingStep /\ is_creating_page /\ key.code = "Enter"

\* C9: Enter with the new-page buffer active appends a page named as the
\* buffer, empty or not, and without todos, after the pages there were,
\* makes it the current page, sets the selection to 0, saves, and returns
\* to Normal.
C9_NewPageCommit ==
  [][NewPageCommit =>
       /\ pages' = pages \o <<[name |-> new_page_name_input, todos |-> <<>>]>>
       /\ current_page_index' = Len(pages)
       /\ selected_todo_index' = 0
       /\ Persisted
       /\ FlagsSet' = 0]_vars

\* A page with the empty name was just appended to TwoPages' first page
\* alone and is the current page.
C9_Witness ==
  /\ pc = "draw"
  /\ save_result = "ok"
  /\ pages = <<TwoPages[1], Page(<<>>, <<>>)>>
  /\ current_page_index = 1
  /\ selected_todo_index = 0
  /\ FlagsSet = 0

\* The handling of r in Normal mode.
RenameKey == HandlingStep /\ ~is_in_input_mode /\ IsChar(key, "r")

\* The handling of Enter with the rename-todo buffer active and not empty.
RenameTodoCommit ==
  HandlingStep /\ is_renaming_todo /\ key.code = "Enter" /\ rename_todo_input # <<>>

\* C10: r in Normal mode on a page with todos opens the rename-todo buffer
\* holding the selected todo's name, the cursor at its end, and on a page
\* without todos changes nothing; while the buffer stays open the Document,
\* the current page and the selection stay as they are; Enter on a buffer
\* that is not empty sets the name of the selected todo to the buffer,
\* nothing else in the Document, saves, and returns to Normal.
C10_RenameTodo ==
  /\ [][RenameKey =>
          IF current_todos # <<>>
          THEN /\ is_renaming_todo'
               /\ FlagsSet' = 1
               /\ rename_todo_input' = current_todos[selected_todo_index + 1].name
               /\ cursor_position' = Len(current_todos[selected_todo_index + 1].name)
               /\ UNCHANGED <<pages, current_page_index, selected_todo_index>>
          ELSE UNCHANGED <<pages, current_page_index, selected_todo_index, flags,
                           inputs, cursor_position, should_quit, disk>>]_vars
  /\ [][is_renaming_todo /\ is_renaming_todo' =>
          UNCHANGED <<pages, current_page_index, selected_todo_index>>]_vars
  /\ [][RenameTodoCommit =>
          /\ pages' = [pages EXCEPT
                         ![current_page_index + 1].todos[selected_todo_index + 1].name =
                           rename_todo_input]
          /\ UNCHANGED <<current_page_index, selected_todo_index>>
          /\ Persisted
          /\ FlagsSet' = 0]_vars

\* The second todo of TwoPages was just renamed from b to a.
C10_Witness ==
  /\ pc = "draw"
  /\ save_result = "ok"
  /\ pages = [TwoPages EXCEPT ![1].todos[2].name = Utf8("a")]
  /\ current_page_index = 0
  /\ selected_todo_index = 1
  /\ FlagsSet = 0

\* The handling of d in Normal mode.
DeleteKey == HandlingStep /\ ~is_in_input_mode /\ IsChar(key, "d")

\* The handling of Enter with the rename-todo buffer active and empty.
RenameTodoEmptyCommit ==
  HandlingStep /\ is_renaming_todo /\ key.code = "Enter" /\ rename_todo_input = <<>>

\* C11: d in Normal mode on a page with todos, and Enter on an empty
\* rename-todo buffer, take the todo at selected_todo_index out of the
\* current page's list, leaving the todos before and after it in their
\* order and the other pages as they are, set the selection to 0 when the
\* list is left empty and else to the smaller of itself and the new last
\* index, and save; d on a page without todos changes nothing.
C11_RemoveSelected ==
  [][(DeleteKey \/ RenameTodoEmptyCommit) =>
       IF current_todos # <<>>
       THEN /\ pages' = [pages EXCEPT ![current_page_index + 1].todos =
                           SubSeq(@, 1, selected_todo_index)
                             \o SubSeq(@, selected_todo_index + 2, Len(@))]
            /\ selected_todo_index' =
                 IF Len(current_todos) = 1 THEN 0
                 ELSE IF selected_todo_index < Len(current_todos) - 2
                      THEN selected_todo_index
                      ELSE Len(current_todos) - 2
            /\ current_page_index' = current_page_index
            /\ Persisted
       ELSE UNCHANGED <<pages, current_page_index, selected_todo_index, flags,
                        inputs, cursor_position, should_quit, disk>>]_vars

\* The first todo of TwoPages was just removed and the todo that followed
\* it is the selected one.
C11_Witness ==
  /\ pc = "draw"
  /\ save_result = "ok"
  /\ pages = [TwoPages EXCEPT ![1].todos = <<TwoPages[1].todos[2]>>]
  /\ current_page_index = 0
  /\ selected_todo_index = 0
  /\ FlagsSet = 0

\* The number written by a digit character.
DigitValue(ch) ==
  CHOOSE n \in 1..9 : <<"1", "2", "3", "4", "5", "6", "7", "8", "9">>[n] = ch

\* The handling of a digit key in Normal mode.
DigitKey ==
  HandlingStep /\ ~is_in_input_mode /\ key.code = "Char" /\ key.ch \in DigitChars

\* C12: a digit key d in Normal mode makes page d-1 the current page with
\* selection 0, staying in Normal mode, when d is at most the page count
\* and d-1 is not the current page index; opens the rename-page buffer
\* holding the current page's name, cursor at its end, when d-1 is the
\* current page index; and opens the new-page buffer, empty, when d is over
\* the page count. The Document and the data file are as before in all
\* three cases and no save is called.
C12_DigitKey ==
  [][DigitKey =>
       LET d == DigitValue(key.ch)
       IN  /\ UNCHANGED <<pages, disk>>
           /\ save_result' = "none"
           /\ d <= Len(pages) /\ d - 1 # current_page_index =>
                /\ current_page_index' = d - 1
                /\ selected_todo_index' = 0
                /\ FlagsSet' = 0
           /\ d - 1 = current_page_index =>
                /\ is_renaming_page'
                /\ FlagsSet' = 1
                /\ rename_page_input' = pages[current_page_index + 1].name
                /\ cursor_position' = Len(pages[current_page_index + 1].name)
                /\ UNCHANGED <<current_page_index, selected_todo_index>>
           /\ d > Len(pages) =>
                /\ is_creating_page'
                /\ FlagsSet' = 1
                /\ new_page_name_input' = <<>>
                /\ cursor_position' = 0
                /\ UNCHANGED <<current_page_index, selected_todo_index>>]_vars

\* On TwoPages, 2 was pressed on page 1 and then again on page 2: the
\* rename-page buffer is open and holds the name of page 2.
C12_Witness ==
  /\ pc = "draw"
  /\ pages = TwoPages
  /\ current_page_index = 1
  /\ is_renaming_page
  /\ rename_page_input = TwoPages[2].name
  /\ cursor_position = Len(TwoPages[2].name)

\* The handling of n in Normal mode.
NewTodoKey == HandlingStep /\ ~is_in_input_mode /\ IsChar(key, "n")

\* C13: n in Normal mode, whatever was typed, committed or cancelled
\* before, opens the new-todo buffer, empty, with the cursor at 0.
C13_NewTodoBufferEmpty ==
  [][NewTodoKey =>
       /\ is_creating_todo'
       /\ FlagsSet' = 1
       /\ new_todo_input' = <<>>
       /\ cursor_position' = 0]_vars

\* The new-todo buffer is open and empty on a page holding the todo an
\* earlier new-todo session committed.
C13_Witness ==
  /\ pc = "draw"
  /\ is_creating_todo
  /\ new_todo_input = <<>>
  /\ cursor_position = 0
  /\ pages = <<Page(MainName, <<Todo(Utf8("a"), FALSE)>>)>>

\* The handling of Esc while a modal buffer is active.
EscKey == HandlingStep /\ is_in_input_mode /\ key.code = "Esc"

\* C14: Esc with a modal buffer active returns to Normal mode, empties that
\* buffer, leaves the Document, the current page index and the data file as
\* they are, and calls no save.
C14_EscDiscards ==
  [][EscKey =>
       /\ FlagsSet' = 0
       /\ \A i \in 1..4 : flags[i] => inputs'[i] = <<>>
       /\ UNCHANGED <<pages, current_page_index, disk>>
       /\ save_result' = "none"]_vars

\* Started without a data file, the rename-page buffer was opened on the
\* page "main" and closed by Esc: the mode is Normal, the buffer is empty,
\* the cursor is where the pre-filled name ended, and there is still no
\* data file.
C14_Witness ==
  /\ pc = "draw"
  /\ FlagsSet = 0
  /\ rename_page_input = <<>>
  /\ cursor_position = Len(MainName)
  /\ pages = <<Page(MainName, <<>>)>>
  /\ disk = AbsentFile

\* s with its elements of indices i and j exchanged.
Exchanged(s, i, j) ==
  [k \in 1..Len(s) |-> IF k = i + 1 THEN s[j + 1] ELSE IF k = j + 1 THEN s[i + 1] ELSE s[k]]

\* The index Shift plus an arrow moves the element of index i to, in a
\* collection of n.
Target(i, n, code) ==
  IF code \in {"Down", "Right"} THEN (i + 1) % n ELSE (i + n - 1) % n

\* The handling of Shift+Down or Shift+Up in Normal mode.
ShiftTodoKey ==
  /\ HandlingStep
  /\ ~is_in_input_mode
  /\ key.code \in {"Down", "Up"}
  /\ "SHIFT" \in key.modifiers

\* The handling of Shift+Right or Shift+Left in Normal mode.
ShiftPageKey ==
  /\ HandlingStep
  /\ ~is_in_input_mode
  /\ key.code \in {"Right", "Left"}
  /\ "SHIFT" \in key.modifiers

TurnPageKey ==
  /\ HandlingStep
  /\ ~is_in_input_mode
  /\ key.code \in {"Right", "Left"} \/ IsChar(key, "l") \/ IsChar(key, "h")
  /\ "SHIFT" \notin key.modifiers

\* C16: Right and l in Normal mode set the current page index to (i+1) mod
\* the number of pages there are at the keypress, Left and h to (i+n-1) mod
\* it; each sets the selection to 0, leaves the Document and the data file
\* as they are, and calls no save.
C16_TurnPage ==
  [][TurnPageKey =>
       LET n == Len(pages)
           forward == key.code = "Right" \/ IsChar(key, "l")
       IN  /\ current_page_index' =
                IF forward THEN (current_page_index + 1) % n
                ELSE (current_page_index + n - 1) % n
           /\ selected_todo_index' = 0
           /\ UNCHANGED <<pages, disk, flags, inputs, should_quit>>
           /\ save_result' = "none"]_vars

\* Left is being handled on the first of two pages with the second todo
\* selected: the step wraps to the last page.
C16_Witness ==
  /\ HandlingCode("Left")
  /\ key.modifiers = {}
  /\ FlagsSet = 0
  /\ Len(pages) = 2
  /\ current_page_index = 0
  /\ selected_todo_index = 1

\* The handling of Enter in Normal mode.
ToggleKey == HandlingStep /\ ~is_in_input_mode /\ key.code = "Enter"

\* C17: Enter in Normal mode on a page with todos negates the completed
\* flag of the selected todo, leaves the rest of the Document, the current
\* page and the selection as they are, and saves; on a page without todos
\* it changes nothing. A second Enter therefore finds the same todo selected
\* and sets the flag back.
C17_Toggle ==
  [][ToggleKey =>
       IF current_todos # <<>>
       THEN /\ pages' = [pages EXCEPT
                           ![current_page_index + 1].todos[selected_todo_index + 1] =
                             [name |-> @.name, completed |-> ~@.completed]]
            /\ UNCHANGED <<current_page_index, selected_todo_index, flags, inputs,
                           should_quit, cursor_position>>
            /\ Persisted
       ELSE /\ UNCHANGED <<pages, current_page_index, selected_todo_index, flags,
                           inputs, should_quit, cursor_position, disk>>
            /\ save_result' = "none"]_vars

\* The second todo of TwoPages, completed at the start, was just set back
\* to not completed.
C17_Witness ==
  /\ pc = "draw"
  /\ save_result = "ok"
  /\ pages = [TwoPages EXCEPT ![1].todos[2].completed = FALSE]
  /\ current_page_index = 0
  /\ selected_todo_index = 1
  /\ disk = ValidFile(pages)

\* The handling of a key during which the save call failed.
FailedSave == HandlingStep /\ save_result' \in SaveOutcomes \ {"ok"}

\* C18, as stated: a save that fails during the handling of a key, in
\* Normal mode or on a modal commit, leaves the loop running, on to its
\* next draw, and the next save that succeeds leaves the data file holding
\* the Document in memory.
C18_SaveFailureNotFatal ==
  /\ [][FailedSave => pc' = "draw"]_vars
  /\ [][HandlingStep /\ save_result' = "ok" =>
          disk' = [kind |-> "valid", doc |-> pages']]_vars

\* The save of a Normal-mode binding has failed and the process has
\* panicked out of the loop.
C18_Witness ==
  /\ pc = "panicked"
  /\ save_result \in SaveOutcomes \ {"ok"}
  /\ FlagsSet = 0

\* The data file is the unparseable one found at startup: where no save
\* fails, a data file is unparseable only if no save was made yet.
UnreadableAtStartup == disk.kind = "corrupt"

\* C19, as stated: when the data file found at startup cannot be parsed, the
\* loop is not entered, no page "main" stands in for the unreadable data,
\* and no save overwrites the file.
C19_UnreadableFileFatal ==
  /\ [](UnreadableAtStartup =>
          /\ pc \notin {"draw", "check", "poll", "handle"}
          /\ pages # <<[name |-> MainName, todos |-> <<>>]>>)
  /\ [][UnreadableAtStartup => disk' = disk]_vars

\* Started on an unparseable data file, the loop is handling the Enter that
\* commits a new todo and saves over the file.
C19_Witness ==
  /\ UnreadableAtStartup
  /\ HandlingCode("Enter")
  /\ is_creating_todo
  /\ new_todo_input # <<>>
  /\ pages = <<Page(MainName, <<>>)>>

\* The process has ended: by main's return after the teardown, by the
\* return of an Err of the setup, or by a panic in the loop.
Ended == pc \in {"exited", "setup_failed", "panicked"}

\* C20, as stated: however the process ends once the terminal was put in raw
\* mode or on the alternate screen (quit, an Err out of the loop, an Err of
\* the setup, a failed save in the loop), raw mode is off and the alternate
\* screen left when it ends.
C20_TerminalRestored == [](Ended => ~raw_mode /\ ~alternate_screen)

\* A save of a Normal-mode binding failed and the process ended by its
\* panic, the terminal in raw mode and on the alternate screen.
C20_Witness ==
  /\ pc = "panicked"
  /\ save_result \in SaveOutcomes \ {"ok"}
  /\ raw_mode
  /\ alternate_screen

\* The handling of q in Normal mode.
QuitKey == HandlingStep /\ ~is_in_input_mode /\ IsChar(key, "q")

\* The step is the drawing of a frame.
DrawStep == pc = "draw" /\ pc' = "check"

\* C21, as stated: q in Normal mode sets the quit flag, and no frame is
\* drawn between that and the return of the loop.
C21_QuitBeforeRedraw ==
  /\ [][QuitKey => should_quit']_vars
  /\ [][should_quit => ~DrawStep]_vars

\* C21, amended: q in Normal mode sets the quit flag and the loop goes on
\* to its next draw; with the flag set the loop takes two more steps and no
\* other: it draws one frame, and the quit check that follows returns.
C21_QuitAfterOneDraw ==
  /\ [][QuitKey => should_quit' /\ pc' = "draw"]_vars
  /\ [][should_quit => DrawStep \/ (pc = "check" /\ pc' = "done")]_vars

\* The loop has returned with the quit flag set.
C21_Witness == pc = "done" /\ should_quit

\* What a draw and a quit check leave alone: all but pc and the Result of
\* the last save.
loop_frame ==
  <<pages, current_page_index, selected_todo_index, flags, inputs, should_quit,
    cursor_position, disk, faults, key>>

\* C22: the loop draws, then checks the quit flag, then polls, then handles
\* the key if one was read, and draws again: each draw is followed by the
\* one quit check of the iteration, which returns exactly when the flag is
\* set and else goes on to the poll; a poll is followed by the handling of
\* one key or by the next draw, and a handling by the next draw (or by a
\* panic). Draw and check change nothing of the App. With the quit flag set
\* the loop is at the draw, at the check or has returned, so the state q
\* left is drawn and no key is polled or handled after it, and the loop
\* does return.
C22_LoopOrder ==
  /\ [][/\ pc = "draw" => pc' = "check" /\ UNCHANGED loop_frame
        /\ pc = "check" =>
             /\ pc' = (IF should_quit THEN "done" ELSE "poll")
             /\ UNCHANGED loop_frame
        /\ pc = "poll" => pc' \in {"handle", "draw"}
        /\ pc = "handle" => pc' \in {"draw", "panicked"}
        /\ pc \notin {"draw", "check", "poll", "handle"} => pc' = pc]_vars
  /\ [](should_quit => pc \in {"draw", "check", "done"})
  /\ (should_quit ~> pc = "done")

\* The frame of the state q left has been drawn and the quit check is next.
C22_Witness == pc = "check" /\ should_quit /\ FlagsSet = 0 /\ key = NoKey

\* The handling of a key with the given code, with or without Ctrl, while a
\* modal buffer is active.
EditStep(code, ctrl) ==
  /\ HandlingStep
  /\ is_in_input_mode
  /\ key.code = code
  /\ ("CONTROL" \in key.modifiers) = ctrl

\* Byte i (from 1) of buf is whitespace.
Blank(buf, i) == buf[i] \in {9, 10, 12, 13, 32}

\* Where Ctrl+Left is to land: back over the whitespace that ends at the
\* cursor, then back over the run of non-whitespace that ends there.
PrevWordStart(buf, cursor) ==
  LET q == CHOOSE q \in 0..cursor :
             /\ \A i \in (q + 1)..cursor : Blank(buf, i)
             /\ q = 0 \/ ~Blank(buf, q)
  IN  CHOOSE p \in 0..q :
        /\ \A i \in (p + 1)..q : ~Blank(buf, i)
        /\ p = 0 \/ Blank(buf, p)

\* The bytes of "hello   world".
HelloWorld == <<104, 101, 108, 108, 111, 32, 32, 32, 119, 111, 114, 108, 100>>

\* C23, as stated: Ctrl+Left leaves the buffer as it is and sets the cursor
\* to the start of the run of non-whitespace found by skipping back over
\* the whitespace before the cursor, or to 0 when the start of the buffer is
\* reached, also in a buffer that starts with or is all whitespace; on
\* "hello   world" it goes from 13 to 8 and from 8 to 0.
C23_CtrlLeft ==
  [][EditStep("Left", TRUE) =>
       /\ cursor_position' = PrevWordStart(active_input, cursor_position)
       /\ active_input' = active_input
       /\ WordLeft(HelloWorld, 13).cursor = 8
       /\ WordLeft(HelloWorld, 8).cursor = 0]_vars

\* Ctrl+Left is being handled with the cursor after the one space a
\* new-todo buffer holds.
C23_Witness ==
  /\ HandlingCode("Left")
  /\ "CONTROL" \in key.modifiers
  /\ is_creating_todo
  /\ new_todo_input = Utf8(" ")
  /\ cursor_position = 1

\* Where Ctrl+Right is to land: forward over the run of non-whitespace that
\* starts at the cursor, then forward over the whitespace that follows.
NextWordStart(buf, cursor) ==
  LET n == Len(buf)
      q == CHOOSE q \in cursor..n :
             /\ \A i \in (cursor + 1)..q : ~Blank(buf, i)
             /\ q = n \/ Blank(buf, q + 1)
  IN  CHOOSE p \in q..n :
        /\ \A i \in (q + 1)..p : Blank(buf, i)
        /\ p = n \/ ~Blank(buf, p + 1)

\* C24: Ctrl+Right returns without a panic, leaves the buffer as it is and
\* sets the cursor to where skipping the run of non-whitespace at the cursor
\* and then the whitespace after it ends: on a byte that is not whitespace
\* or at the length of the buffer, and never before where it was.
C24_CtrlRight ==
  [][EditStep("Right", TRUE) =>
       /\ pc' = "draw"
       /\ active_input' = active_input
       /\ cursor_position' = NextWordStart(active_input, cursor_position)
       /\ cursor_position' >= cursor_position
       /\ \/ cursor_position' = Len(active_input)
          \/ ~Blank(active_input, cursor_position' + 1)]_vars

\* Ctrl+Right is being handled at the start of a buffer of two words.
C24_Witness ==
  /\ HandlingCode("Right")
  /\ "CONTROL" \in key.modifiers
  /\ is_in_input_mode
  /\ active_input = Utf8("a") \o Utf8(" ") \o Utf8("a")
  /\ cursor_position = 0

\* The offset after i at which the next character of buf starts, or its
\* length.
BoundaryAfter(buf, i) ==
  CHOOSE j \in (i + 1)..Len(buf) :
    /\ j = Len(buf) \/ buf[j + 1] < 128 \/ buf[j + 1] >= 192
    /\ \A m \in (i + 1)..(j - 1) : buf[m + 1] >= 128 /\ buf[m + 1] < 192

C26_CursorOnBoundary ==
  /\ [](pc # "panicked")
  /\ [](is_in_input_mode =>
          \/ cursor_position = 0
          \/ cursor_position = Len(active_input)
          \/ /\ cursor_position < Len(active_input)
             /\ \/ active_input[cursor_position + 1] < 128
                \/ active_input[cursor_position + 1] >= 192)

\* Backspace in the rename-page buffer, pre-filled with the page name of
\* two bytes, has panicked.
C26_Witness ==
  /\ pc = "panicked"
  /\ is_renaming_page
  /\ rename_page_input = EditPages[1].name
  /\ cursor_position = Len(EditPages[1].name)

=============================================================================
